---- MODULE Spec2Model ----
(***************************************************************************)
(* A model of ethereal's wallet location (cli/wallet.go) and of the three  *)
(* transaction-submitting commands 'transaction up', 'contract send' and   *)
(* 'ens address set'.  One behaviour is one invocation of the program:     *)
(* Init fixes the command and its flags, every action is one step of the   *)
(* command's Run function (or of a cli package function), and the answers  *)
(* of the node, the keystores and the hardware hub are chosen when the     *)
(* step asks for them.                                                     *)
(***************************************************************************)
EXTENDS Integers, Sequences, FiniteSets, TLC

VARIABLES
    cmd,          \* the operation this invocation runs
    pc,           \* position in the operation
    flags,        \* the command-line flags (package-level variables of cmd)
    exitStatus,   \* NotExited, or the status the process exited with
    failure,      \* the message class of the cli check that ended the run
    trace,        \* external calls and cli checks made so far, in order
    stdout,       \* lines printed on standard output
    tx,           \* the transaction returned by client.TransactionByHash
    pending,      \* whether the node reported it as pending
    minGasPrice,  \* transactionup.go: minGasPrice
    gasPrice,     \* package-level gasPrice (NoPrice = nil)
    nonce,        \* package-level nonce (-1 = not set)
    fromAddress,  \* the sending address
    unsigned,     \* the arguments given to createSignedTransaction
    signedTx,     \* the signed transaction
    wallet,       \* result of ObtainWallet
    account,      \* result of ObtainAccount
    wallets,      \* result of ObtainWallets
    enumerated,   \* ObtainWallets' local slice of the wallets found so far
    err,          \* error returned by the cli package function ("" = nil)
    signRequests, \* signing requests made to a wallet backend, in order
    hub           \* the hardware hub's wallets: opened handles and derivations

txVars == <<tx, pending, minGasPrice, gasPrice, nonce, fromAddress, unsigned, signedTx>>
walletVars == <<wallet, account, wallets, enumerated, err, signRequests, hub>>
vars == <<cmd, pc, flags, exitStatus, failure, trace, stdout, txVars, walletVars>>

----------------------------------------------------------------------------
(* Bounds of the model *)

MaxGasPrice == 11
MaxNonce == 1
MaxValue == 1
MaxHubWallets == 2
MaxUsbWallets == 2

(* Program constants *)

exit_success == 0
exit_failure == 1
exit_not_mined == 2
GasPriceDivisor == 10
GasPriceIncrement == 1

----------------------------------------------------------------------------
(* Values.  A Go pointer or an unset flag is an option: None or Some(v). *)

None == << >>
Some(v) == <<v>>
IsSome(o) == o /= None
Val(o) == o[1]

NoAddress == "none"
UnknownAddress == "0x0"
NoWallet == [kind |-> "nil", url |-> << >>, accounts |-> << >>]
NoAccount == "nil"

Addresses == {"a1", "a2"}
GasPrices == (0..MaxGasPrice) \cup {1000000000}
\* The --gasprice values of the model: around the minimum of the prices 5,
\* MaxGasPrice - 1, MaxGasPrice and one gwei.
SuppliedGasPrices == {0, 6, 7, MaxGasPrice + 1, MaxGasPrice + 2, 1100000001, 1100000002}
Datas == {<< >>, <<1, 171>>}

\* The pending or mined transactions a node can return: every combination of
\* the other fields at one gas price, and every gas price for one combination.
Transactions ==
    [nonce : 0..MaxNonce, to : {NoAddress, "a2"}, value : 0..MaxValue,
     gas : {21000}, gasPrice : {5}, data : Datas]
      \cup [nonce : {MaxNonce}, to : {"a2"}, value : {MaxValue},
            gas : {21000}, gasPrice : GasPrices, data : {<<1, 171>>}]

\* One entry of the trace: an external call or a cli check and how it ended.
Call(op, ok) == [op |-> op, ok |-> ok]

Ops(t) == {t[i].op : i \in 1..Len(t)}
Failed(t) == {t[i].op : i \in {j \in 1..Len(t) : ~t[j].ok}}

----------------------------------------------------------------------------
(* Process exit.  cli.Assert and cli.ErrCheck end the process with status  *)
(* 1 when the condition is false or the error is set.                      *)

Exit(status) ==
    /\ exitStatus' = exitStatus \cup {status}
    /\ pc' = "exited"

Die(msg) ==
    /\ failure' = msg
    /\ Exit(exit_failure)

----------------------------------------------------------------------------
(* transaction up *)

\* big.Int.Div: Euclidean division (the remainder is never negative).
BigDiv(x, y) ==
    IF y > 0 THEN x \div y ELSE -(x \div (-y))

\* transactionup.go:51
MinGasPriceNoIncrement(g) == g + BigDiv(g, GasPriceDivisor)
MinGasPrice(g) == (g + BigDiv(g, GasPriceDivisor)) + GasPriceIncrement

\* transactionup.go:57, the condition of the check on a supplied gas price
GasPriceAcceptedAtMinimum(supplied, min) == supplied >= min
GasPriceAccepted(supplied, min) == supplied > min

\* transactionup.go:43
UpValidate ==
    /\ cmd = "up" /\ pc = "up_validate"
    /\ IF flags.transactionStr /= ""
       THEN /\ trace' = Append(trace, Call("check --transaction", TRUE))
            /\ pc' = "up_fetch"
            /\ UNCHANGED <<exitStatus, failure>>
       ELSE /\ trace' = Append(trace, Call("check --transaction", FALSE))
            /\ Die("--transaction is required")
    /\ UNCHANGED <<cmd, flags, stdout, txVars, walletVars>>

\* transactionup.go:44-49
UpFetchFailed ==
    /\ cmd = "up" /\ pc = "up_fetch"
    /\ trace' = Append(trace, Call("TransactionByHash", FALSE))
    /\ Die("Failed to obtain transaction")
    /\ UNCHANGED <<cmd, flags, stdout, txVars, walletVars>>

UpFetchedKeepsMined(t, isPending) ==
    /\ tx' = Some(t)
    /\ pending' = Some(isPending)
    /\ trace' = Append(trace, Call("TransactionByHash", TRUE))
    /\ pc' = "up_gasprice"
    /\ UNCHANGED <<exitStatus, failure>>

UpFetched(t, isPending) ==
    /\ tx' = Some(t)
    /\ pending' = Some(isPending)
    /\ IF isPending
       THEN /\ trace' = Append(trace, Call("TransactionByHash", TRUE))
            /\ pc' = "up_gasprice"
            /\ UNCHANGED <<exitStatus, failure>>
       ELSE /\ trace' = trace \o <<Call("TransactionByHash", TRUE), Call("check pending", FALSE)>>
            /\ Die("Transaction has already been mined")

UpFetch ==
    /\ cmd = "up" /\ pc = "up_fetch"
    /\ \E t \in Transactions, isPending \in BOOLEAN : UpFetched(t, isPending)
    /\ UNCHANGED <<cmd, flags, stdout, minGasPrice, gasPrice, nonce,
                   fromAddress, unsigned, signedTx, walletVars>>

\* transactionup.go:51-58
UpGasPrice ==
    /\ cmd = "up" /\ pc = "up_gasprice"
    /\ minGasPrice' = Some(MinGasPrice(Val(tx).gasPrice))
    /\ IF flags.gasprice = None
       THEN /\ gasPrice' = minGasPrice'
            /\ pc' = "up_from"
            /\ UNCHANGED <<exitStatus, failure, trace>>
       ELSE /\ gasPrice' = gasPrice
            /\ IF GasPriceAccepted(Val(gasPrice), Val(minGasPrice'))
               THEN /\ trace' = Append(trace, Call("check gas price", TRUE))
                    /\ pc' = "up_from"
                    /\ UNCHANGED <<exitStatus, failure>>
               ELSE /\ trace' = Append(trace, Call("check gas price", FALSE))
                    /\ Die("Gas price must be at least")
    /\ UNCHANGED <<cmd, flags, stdout, tx, pending, nonce,
                   fromAddress, unsigned, signedTx, walletVars>>

----------------------------------------------------------------------------
(* cli/wallet.go: locating the wallet and the account of an address *)

MainnetChainID == 1
TestnetChainID == 3
RinkebyChainID == 4
GoerliChainID == 5

\* The chains of the model: the four above, Volta, Energy Web and a private one.
ChainIDs == {MainnetChainID, TestnetChainID, RinkebyChainID, GoerliChainID, 73799, 246, 1337}
GOOSes == {"linux", "darwin", "windows", "plan9"}

\* The order in which an account manager lists the wallets of a keystore (by URL).
AddressOrder == <<"a1", "a2">>

DefaultDataDir == <<"DefaultDataDir">>

\* The chain of comparisons with the Volta and Energy Web chain identifiers in
\* the last two branches
GethKeydirWithVolta(chainID) ==
    LET sub == IF chainID = MainnetChainID THEN << >>
               ELSE IF chainID = TestnetChainID THEN <<"testnet">>
               ELSE IF chainID = RinkebyChainID THEN <<"rinkeby">>
               ELSE IF chainID = GoerliChainID THEN <<"goerli">>
               ELSE IF chainID = 73799 THEN <<"volta">>
               ELSE IF chainID = 246 THEN <<"energyweb">>
               ELSE << >>
    IN  (DefaultDataDir \o sub) \o <<"keystore">>

\* wallet.go:86-100 and 110-124
GethKeydir(chainID) ==
    LET sub == IF chainID = MainnetChainID THEN << >>
               ELSE IF chainID = TestnetChainID THEN <<"testnet">>
               ELSE IF chainID = RinkebyChainID THEN <<"rinkeby">>
               ELSE IF chainID = GoerliChainID THEN <<"goerli">>
               ELSE IF chainID = GoerliChainID THEN <<"volta">>
               ELSE IF chainID = GoerliChainID THEN <<"energyweb">>
               ELSE << >>
    IN  (DefaultDataDir \o sub) \o <<"keystore">>

\* wallet.go:136-150 and 165-179; << >> stands for the unsupported operating system
ParityKeydir(chainID, goos) ==
    LET base == IF goos = "windows" THEN <<"home", "AppData\\Roaming\\Parity\\Ethereum\\keys">>
                ELSE IF goos = "darwin" THEN <<"home", "Library/Application Support/io.parity.ethereum/keys">>
                ELSE IF goos = "linux" THEN <<"home", ".local/share/io.parity.ethereum/keys">>
                ELSE << >>
        sub  == IF chainID = MainnetChainID THEN <<"ethereum">>
                ELSE IF chainID = TestnetChainID THEN <<"test">>
                ELSE << >>
    IN  IF base = << >> THEN << >> ELSE base \o sub

\* keystore.NewKeyStore(keydir) behind an account manager: one wallet per key
\* file, each holding the one account of its file.
KeystoreWallet(keydir, a) ==
    [kind |-> "keystore", url |-> Append(keydir, a), accounts |-> <<a>>]

KeystoreWallets(keydir, store) ==
    LET present == SelectSeq(AddressOrder, LAMBDA a : a \in store)
    IN  [i \in 1..Len(present) |-> KeystoreWallet(keydir, present[i])]

Contains(w, address) == \E i \in 1..Len(w.accounts) : w.accounts[i] = address

\* accounts.Manager.Find: the first wallet that contains the account
Find(ws, address) ==
    IF \E i \in 1..Len(ws) : Contains(ws[i], address)
    THEN [wallet |-> ws[CHOOSE i \in 1..Len(ws) :
                          /\ Contains(ws[i], address)
                          /\ \A j \in 1..(i - 1) : ~Contains(ws[j], address)],
          err |-> ""]
    ELSE [wallet |-> NoWallet, err |-> "unknown account"]

\* What the machine holds when a wallet function runs: the key files of the
\* Geth and Parity key directories, whether the home directory is found, and
\* the operating system of the build.
WalletEnvs == [geth : SUBSET Addresses, parity : SUBSET Addresses,
               home : BOOLEAN, goos : GOOSes]

\* wallet.go:85-107
obtainGethWallet(chainID, address, env) ==
    Find(KeystoreWallets(GethKeydir(chainID), env.geth), address)

\* wallet.go:131-158
obtainParityWallet(chainID, address, env) ==
    IF ~env.home THEN [wallet |-> NoWallet, err |-> "Failed to find home directory"]
    ELSE IF ParityKeydir(chainID, env.goos) = << >>
    THEN [wallet |-> NoWallet, err |-> "Unsupported operating system"]
    ELSE Find(KeystoreWallets(ParityKeydir(chainID, env.goos), env.parity), address)

\* wallet.go:70-83; calls lists the backends consulted, in order
ObtainWallet(chainID, address, env) ==
    LET g == obtainGethWallet(chainID, address, env)
        p == obtainParityWallet(chainID, address, env)
    IN  IF g.err = ""
        THEN [wallet |-> g.wallet, err |-> "", calls |-> <<Call("geth keystore", TRUE)>>]
        ELSE IF p.err = ""
        THEN [wallet |-> p.wallet, err |-> "",
              calls |-> <<Call("geth keystore", FALSE), Call("parity keystore", TRUE)>>]
        ELSE [wallet |-> p.wallet, err |-> "failed to obtain wallet",
              calls |-> <<Call("geth keystore", FALSE), Call("parity keystore", FALSE)>>]

\* wallet.go:226, the request VerifyPassphrase makes of the wallet
ZeroData == [i \in 1..32 |-> 0]

SignDataRequest(w, a, passphrase) ==
    [wallet |-> w.url, account |-> a, passphrase |-> passphrase,
     mimeType |-> "application/octet-stream", data |-> ZeroData]

\* wallet.go:224-228; signErr is the error SignDataWithPassphrase returns
VerifyPassphrase(signErr) == signErr = ""

\* wallet.go:214, whether the passphrase is to be verified
VerifiesEmptyPassphrase(passphrase) == TRUE
Verifies(passphrase) == passphrase /= ""

\* wallet.go:210-222, from the i-th account of the wallet on
RECURSIVE ObtainAccountFrom(_, _, _, _, _)
ObtainAccountFrom(w, i, address, passphrase, signErr) ==
    IF i > Len(w.accounts)
    THEN [account |-> NoAccount, err |-> "account not found", requests |-> << >>, out |-> << >>]
    ELSE IF address = w.accounts[i]
    THEN IF Verifies(passphrase)
         THEN IF ~VerifyPassphrase(signErr)
              THEN [account |-> NoAccount, err |-> "invalid passphrase",
                    requests |-> <<SignDataRequest(w, w.accounts[i], passphrase)>>,
                    out |-> <<"Verifying passphrase">>]
              ELSE [account |-> w.accounts[i], err |-> "",
                    requests |-> <<SignDataRequest(w, w.accounts[i], passphrase)>>,
                    out |-> << >>]
         ELSE [account |-> w.accounts[i], err |-> "", requests |-> << >>, out |-> << >>]
    ELSE ObtainAccountFrom(w, i + 1, address, passphrase, signErr)

ObtainAccountIgnoringSignature(w, address, passphrase, signErr) ==
    ObtainAccountFrom(w, 1, address, passphrase, "")

ObtainAccount(w, address, passphrase, signErr) ==
    ObtainAccountFrom(w, 1, address, passphrase, signErr)

----------------------------------------------------------------------------
(* The steps the commands share *)

Pipeline == {"up", "send", "ens"}

Continue(next) ==
    /\ pc' = next
    /\ UNCHANGED <<exitStatus, failure>>

\* A cli package function called on its own returns to its caller.
Return ==
    /\ pc' = "returned"
    /\ UNCHANGED <<exitStatus, failure>>

\* The message of the cli.ErrCheck that follows createSignedTransaction
\* (transactionup.go:66, contractsend.go:76) or generateTxOpts (ensaddressset.go:63)
ResolveFailure ==
    IF cmd = "up" THEN "Failed to create transaction"
    ELSE IF cmd = "send" THEN "Failed to create contract method transaction"
    ELSE "Failed to generate transaction options"

\* wallet.go:63 and 70-83 (createSignedTransaction and generateTxOpts resolve
\* the sender through ObtainWalletAndAccount and fail when it fails)
ObtainWalletStep ==
    /\ pc = "resolve"
    /\ \E env \in WalletEnvs :
         LET r == ObtainWallet(flags.chainID, fromAddress, env)
         IN  /\ wallet' = r.wallet
             /\ err' = r.err
             /\ trace' = trace \o r.calls
             /\ IF r.err = "" THEN Continue("account")
                ELSE IF cmd \in Pipeline THEN Die(ResolveFailure)
                ELSE Return
    /\ UNCHANGED <<cmd, flags, stdout, txVars, account, wallets, enumerated, signRequests, hub>>

AfterAccount ==
    IF cmd \in {"up", "send"} THEN "build_nonce"
    ELSE IF cmd = "ens" THEN "ens_setaddress"
    ELSE "returned"

\* wallet.go:64-67 and 210-228
ObtainAccountStep ==
    /\ pc = "account"
    /\ \E signErr \in {"", "could not decrypt key with given password"} :
         LET r == ObtainAccount(wallet, fromAddress, flags.passphrase, signErr)
         IN  /\ account' = r.account
             /\ err' = r.err
             /\ signRequests' = signRequests \o r.requests
             /\ stdout' = stdout \o [i \in 1..Len(r.out) |-> <<r.out[i]>>]
             /\ trace' = trace \o [i \in 1..Len(r.requests) |->
                                      Call("SignDataWithPassphrase", signErr = "")]
             /\ IF r.err = "" THEN Continue(AfterAccount)
                ELSE IF cmd \in Pipeline THEN Die(ResolveFailure)
                ELSE Return
    /\ UNCHANGED <<cmd, flags, txVars, wallet, wallets, enumerated, hub>>

\* createSignedTransaction: the nonce is the package-level nonce when it is
\* set, the node's next pending nonce of the sender otherwise.
BuildNonce ==
    /\ pc = "build_nonce"
    /\ IF IsSome(nonce)
       THEN /\ Continue("build_gasprice")
            /\ UNCHANGED <<nonce, trace>>
       ELSE \/ /\ \E n \in 0..MaxNonce : nonce' = Some(n)
               /\ trace' = Append(trace, Call("PendingNonceAt", TRUE))
               /\ Continue("build_gasprice")
            \/ /\ trace' = Append(trace, Call("PendingNonceAt", FALSE))
               /\ Die("Failed to create transaction")
               /\ UNCHANGED nonce
    /\ UNCHANGED <<cmd, flags, stdout, tx, pending, minGasPrice, gasPrice, fromAddress,
                   unsigned, signedTx, walletVars>>

\* createSignedTransaction: the gas price is the package-level gas price when
\* it is set, the node's suggestion otherwise.
BuildGasPrice ==
    /\ pc = "build_gasprice"
    /\ IF IsSome(gasPrice)
       THEN /\ Continue("sign")
            /\ UNCHANGED <<gasPrice, trace>>
       ELSE \/ /\ \E g \in 1..2 : gasPrice' = Some(g)
               /\ trace' = Append(trace, Call("SuggestGasPrice", TRUE))
               /\ Continue("sign")
            \/ /\ trace' = Append(trace, Call("SuggestGasPrice", FALSE))
               /\ Die("Failed to create transaction")
               /\ UNCHANGED gasPrice
    /\ UNCHANGED <<cmd, flags, stdout, tx, pending, minGasPrice, nonce, fromAddress,
                   unsigned, signedTx, walletVars>>

\* The transaction createSignedTransaction builds from its arguments and the
\* package-level nonce and gas price.
BuiltTransaction ==
    [from |-> unsigned.from, nonce |-> Val(nonce), to |-> unsigned.to,
     value |-> unsigned.value, gas |-> unsigned.gasLimit,
     gasPrice |-> Val(gasPrice), data |-> unsigned.data]

\* createSignedTransaction: the wallet signs the transaction with the passphrase.
SignStep ==
    /\ pc = "sign"
    /\ \/ /\ trace' = Append(trace, Call("SignTxWithPassphrase", TRUE))
          /\ signedTx' = Some(BuiltTransaction)
          /\ Continue(IF cmd = "up" THEN "up_emit" ELSE "send_emit")
       \/ /\ trace' = Append(trace, Call("SignTxWithPassphrase", FALSE))
          /\ Die(IF cmd = "up" THEN "Failed to create transaction"
                 ELSE "Failed to create contract method transaction")
          /\ UNCHANGED signedTx
    /\ UNCHANGED <<cmd, flags, stdout, tx, pending, minGasPrice, gasPrice, nonce, fromAddress,
                   unsigned, walletVars>>

\* types.Transaction.EncodeRLP: the fields in the order of the canonical
\* encoding, one byte each (the data as it is), without the length prefixes.
AddressByte(a) == IF a = "a1" THEN 161 ELSE IF a = "a2" THEN 162 ELSE 128

EncodeRLP(stx) ==
    <<stx.nonce % 256, stx.gasPrice % 256, stx.gas % 256, AddressByte(stx.to),
      stx.value % 256>> \o stx.data

\* encoding/hex.EncodeToString
HexDigits == <<"0", "1", "2", "3", "4", "5", "6", "7", "8", "9", "a", "b", "c", "d", "e", "f">>

RECURSIVE EncodeToString(_)
EncodeToString(bytes) ==
    IF bytes = << >> THEN << >>
    ELSE <<HexDigits[(Head(bytes) \div 16) + 1], HexDigits[(Head(bytes) % 16) + 1]>>
            \o EncodeToString(Tail(bytes))

\* transactionup.go:72, contractsend.go:82: fmt.Printf("0x%s\n", hex...)
OfflineLine(stx) == <<"0x">> \o EncodeToString(EncodeRLP(stx))

\* transactionup.go:68-75, contractsend.go:78-85
EmitOfflineThenSend(next) ==
    /\ IF flags.offline /\ ~flags.quiet
       THEN stdout' = Append(stdout, OfflineLine(Val(signedTx)))
       ELSE stdout' = stdout
    /\ Continue(next)

Emit(next) ==
    IF flags.offline
    THEN /\ IF ~flags.quiet
            THEN stdout' = Append(stdout, OfflineLine(Val(signedTx)))
            ELSE stdout' = stdout
         /\ Exit(exit_success)
         /\ UNCHANGED failure
    ELSE /\ Continue(next)
         /\ UNCHANGED stdout

\* transactionup.go:77-80, contractsend.go:87-90
SendIgnoringError(msg) ==
    \E ok \in BOOLEAN :
        /\ trace' = Append(trace, Call("SendTransaction", ok))
        /\ Continue("submitted")

Send(msg) ==
    \/ /\ trace' = Append(trace, Call("SendTransaction", TRUE))
       /\ Continue("submitted")
    \/ /\ trace' = Append(trace, Call("SendTransaction", FALSE))
       /\ Die(msg)

\* handleSubmittedTransaction: with --wait the run ends with 0 when the
\* transaction is mined before the deadline and with 2 when it is not;
\* without --wait it ends with 0 (transactionup.go:41, contractsend.go:46,
\* ensaddressset.go:38).
HandleSubmittedTransaction ==
    /\ pc = "submitted"
    /\ IF flags.wait
       THEN \/ /\ trace' = Append(trace, Call("mined", TRUE))
               /\ Exit(exit_success)
            \/ /\ trace' = Append(trace, Call("not mined in time", TRUE))
               /\ Exit(exit_not_mined)
       ELSE /\ Exit(exit_success)
            /\ UNCHANGED trace
    /\ UNCHANGED <<cmd, flags, failure, stdout, txVars, walletVars>>

----------------------------------------------------------------------------
(* transaction up, continued *)

\* txFrom without the cli.ErrCheck after it: the run goes on with the zero
\* address when the sender cannot be recovered
UpFromIgnoringError ==
    /\ cmd = "up" /\ pc = "up_from"
    /\ \/ /\ \E a \in Addresses : fromAddress' = a
          /\ trace' = Append(trace, Call("txFrom", TRUE))
       \/ /\ fromAddress' = UnknownAddress
          /\ trace' = Append(trace, Call("txFrom", FALSE))
    /\ Continue("up_create")
    /\ UNCHANGED <<cmd, flags, stdout, tx, pending, minGasPrice, gasPrice, nonce,
                   unsigned, signedTx, walletVars>>

\* transactionup.go:61-62; txFrom recovers the sender from the signature
UpFrom ==
    /\ cmd = "up" /\ pc = "up_from"
    /\ \/ /\ \E a \in Addresses : fromAddress' = a
          /\ trace' = Append(trace, Call("txFrom", TRUE))
          /\ Continue("up_create")
       \/ /\ trace' = Append(trace, Call("txFrom", FALSE))
          /\ Die("Failed to obtain from address")
          /\ UNCHANGED fromAddress
    /\ UNCHANGED <<cmd, flags, stdout, tx, pending, minGasPrice, gasPrice, nonce,
                   unsigned, signedTx, walletVars>>

\* transactionup.go:64-65, the arguments of createSignedTransaction
ReplacementArgumentsWithoutData(from, t) ==
    [from |-> from, to |-> t.to, value |-> t.value, gasLimit |-> t.gas, data |-> << >>]

ReplacementArguments(from, t) ==
    [from |-> from, to |-> t.to, value |-> t.value, gasLimit |-> t.gas, data |-> t.data]

\* transactionup.go:64, nonce = int64(tx.Nonce()); the nonces of the model
\* are below 2^63, where the conversion keeps the value
ReplacementNonce(t) == t.nonce

UpCreate ==
    /\ cmd = "up" /\ pc = "up_create"
    /\ nonce' = Some(ReplacementNonce(Val(tx)))
    /\ unsigned' = ReplacementArguments(fromAddress, Val(tx))
    /\ Continue("resolve")
    /\ UNCHANGED <<cmd, flags, trace, stdout, tx, pending, minGasPrice, gasPrice,
                   fromAddress, signedTx, walletVars>>

\* transactionup.go:68-75
UpEmit ==
    /\ cmd = "up" /\ pc = "up_emit"
    /\ Emit("up_send")
    /\ UNCHANGED <<cmd, flags, trace, txVars, walletVars>>

\* transactionup.go:77-80
UpSend ==
    /\ cmd = "up" /\ pc = "up_send"
    /\ Send("Failed to send transaction")
    /\ UNCHANGED <<cmd, flags, stdout, txVars, walletVars>>

----------------------------------------------------------------------------
(* contract send *)

\* outputIf(verbose, line)
OutputIfVerbose(line) ==
    stdout' = IF flags.verbose THEN Append(stdout, line) ELSE stdout

\* contractsend.go:49-51
SendFrom ==
    /\ cmd = "send" /\ pc = "send_from"
    /\ IF flags.from = ""
       THEN /\ trace' = Append(trace, Call("check --from", FALSE))
            /\ Die("--from is required")
            /\ UNCHANGED fromAddress
       ELSE \/ /\ \E a \in Addresses : fromAddress' = a
               /\ trace' = trace \o <<Call("check --from", TRUE), Call("ens.Resolve", TRUE)>>
               /\ Continue("send_call")
            \/ /\ trace' = trace \o <<Call("check --from", TRUE), Call("ens.Resolve", FALSE)>>
               /\ Die("Failed to resolve from address")
               /\ UNCHANGED fromAddress
    /\ UNCHANGED <<cmd, flags, stdout, tx, pending, minGasPrice, gasPrice, nonce,
                   unsigned, signedTx, walletVars>>

\* contractsend.go:54-62
SendCall ==
    /\ cmd = "send" /\ pc = "send_call"
    /\ IF flags.call = ""
       THEN /\ trace' = Append(trace, Call("check --call", FALSE))
            /\ Die("--call is required")
            /\ UNCHANGED <<unsigned, stdout>>
       ELSE \/ /\ \E d \in Datas \ {<< >>} :
                    /\ unsigned' = [unsigned EXCEPT !.data = d]
                    /\ OutputIfVerbose(<<"Data is ">> \o EncodeToString(d))
               /\ trace' = trace \o <<Call("check --call", TRUE), Call("ParseCall", TRUE),
                                      Call("Abi.Pack", TRUE)>>
               /\ Continue("send_contract")
            \/ /\ trace' = trace \o <<Call("check --call", TRUE), Call("ParseCall", FALSE)>>
               /\ Die("Failed to parse call")
               /\ UNCHANGED <<unsigned, stdout>>
            \/ /\ trace' = trace \o <<Call("check --call", TRUE), Call("ParseCall", TRUE),
                                      Call("Abi.Pack", FALSE)>>
               /\ Die("Failed to convert arguments")
               /\ UNCHANGED <<unsigned, stdout>>
    /\ UNCHANGED <<cmd, flags, tx, pending, minGasPrice, gasPrice, nonce,
                   fromAddress, signedTx, walletVars>>

\* contractsend.go:64-66
SendContract ==
    /\ cmd = "send" /\ pc = "send_contract"
    /\ IF flags.contract = ""
       THEN /\ trace' = Append(trace, Call("check --contract", FALSE))
            /\ Die("--contract is required")
            /\ UNCHANGED unsigned
       ELSE \/ /\ \E a \in Addresses : unsigned' = [unsigned EXCEPT !.to = a]
               /\ trace' = trace \o <<Call("check --contract", TRUE), Call("ens.Resolve", TRUE)>>
               /\ Continue("send_amount")
            \/ /\ trace' = trace \o <<Call("check --contract", TRUE), Call("ens.Resolve", FALSE)>>
               /\ Die("Failed to resolve contract address")
               /\ UNCHANGED unsigned
    /\ UNCHANGED <<cmd, flags, stdout, tx, pending, minGasPrice, gasPrice, nonce,
                   fromAddress, signedTx, walletVars>>

\* contractsend.go:68-75, the amount and the arguments of createSignedTransaction
SendAmount ==
    /\ cmd = "send" /\ pc = "send_amount"
    /\ IF flags.amount = ""
       THEN /\ unsigned' = [unsigned EXCEPT !.from = fromAddress, !.value = 0,
                                            !.gasLimit = flags.gasLimit]
            /\ Continue("resolve")
            /\ UNCHANGED trace
       ELSE \/ /\ \E v \in 0..MaxValue :
                    unsigned' = [unsigned EXCEPT !.from = fromAddress, !.value = v,
                                                 !.gasLimit = flags.gasLimit]
               /\ trace' = Append(trace, Call("StringToWei", TRUE))
               /\ Continue("resolve")
            \/ /\ trace' = Append(trace, Call("StringToWei", FALSE))
               /\ Die("Invalid amount")
               /\ UNCHANGED unsigned
    /\ UNCHANGED <<cmd, flags, stdout, tx, pending, minGasPrice, gasPrice, nonce,
                   fromAddress, signedTx, walletVars>>

\* contractsend.go:78-85
SendEmit ==
    /\ cmd = "send" /\ pc = "send_emit"
    /\ Emit("send_send")
    /\ UNCHANGED <<cmd, flags, trace, txVars, walletVars>>

\* contractsend.go:87-90
SendSend ==
    /\ cmd = "send" /\ pc = "send_send"
    /\ Send("Failed to send contract method transaction")
    /\ UNCHANGED <<cmd, flags, stdout, txVars, walletVars>>

----------------------------------------------------------------------------
(* ens address set *)

\* ensaddressset.go:40-41
EnsValidate ==
    /\ cmd = "ens" /\ pc = "ens_validate"
    /\ IF flags.offline
       THEN /\ trace' = Append(trace, Call("check !offline", FALSE))
            /\ Die("Offline mode not supported at current with this command")
       ELSE IF flags.domain = ""
       THEN /\ trace' = trace \o <<Call("check !offline", TRUE), Call("check --domain", FALSE)>>
            /\ Die("--domain is required")
       ELSE /\ trace' = trace \o <<Call("check !offline", TRUE), Call("check --domain", TRUE)>>
            /\ Continue("ens_registry")
    /\ UNCHANGED <<cmd, flags, stdout, txVars, walletVars>>

\* ensaddressset.go:43-44
EnsRegistry ==
    /\ cmd = "ens" /\ pc = "ens_registry"
    /\ \/ /\ trace' = Append(trace, Call("ens.NewRegistry", TRUE))
          /\ Continue("ens_owner")
       \/ /\ trace' = Append(trace, Call("ens.NewRegistry", FALSE))
          /\ Die("Cannot obtain ENS registry contract")
    /\ UNCHANGED <<cmd, flags, stdout, txVars, walletVars>>

\* ensaddressset.go:47-50
EnsOwner ==
    /\ cmd = "ens" /\ pc = "ens_owner"
    /\ \/ /\ \E a \in Addresses : fromAddress' = a
          /\ trace' = trace \o <<Call("registry.Owner", TRUE), Call("check owner set", TRUE)>>
          /\ OutputIfVerbose(<<"Domain is owned by ", fromAddress'>>)
          /\ Continue("ens_address")
       \/ /\ fromAddress' = UnknownAddress
          /\ trace' = trace \o <<Call("registry.Owner", TRUE), Call("check owner set", FALSE)>>
          /\ Die("owner is not set")
          /\ UNCHANGED stdout
       \/ /\ trace' = Append(trace, Call("registry.Owner", FALSE))
          /\ Die("Cannot obtain owner")
          /\ UNCHANGED <<fromAddress, stdout>>
    /\ UNCHANGED <<cmd, flags, tx, pending, minGasPrice, gasPrice, nonce,
                   unsigned, signedTx, walletVars>>

\* ensaddressset.go:53-55; a failed ens.Resolve returns the unknown address,
\* so the check of the address ends the run before the check of the error
EnsAddress ==
    /\ cmd = "ens" /\ pc = "ens_address"
    /\ \/ /\ \E a \in Addresses : unsigned' = [unsigned EXCEPT !.data = <<AddressByte(a)>>]
          /\ trace' = trace \o <<Call("ens.Resolve", TRUE), Call("check address", TRUE)>>
          /\ Continue("ens_resolver")
       \/ /\ trace' = trace \o <<Call("ens.Resolve", TRUE), Call("check address", FALSE)>>
          /\ Die("Invalid address")
          /\ UNCHANGED unsigned
       \/ /\ trace' = trace \o <<Call("ens.Resolve", FALSE), Call("check address", FALSE)>>
          /\ Die("Invalid address")
          /\ UNCHANGED unsigned
    /\ UNCHANGED <<cmd, flags, stdout, tx, pending, minGasPrice, gasPrice, nonce,
                   fromAddress, signedTx, walletVars>>

\* ensaddressset.go:58-62; generateTxOpts(owner) resolves the owner's wallet
EnsResolver ==
    /\ cmd = "ens" /\ pc = "ens_resolver"
    /\ \/ /\ trace' = Append(trace, Call("ens.NewResolver", TRUE))
          /\ unsigned' = [unsigned EXCEPT !.from = fromAddress, !.to = "resolver",
                                          !.gasLimit = flags.gasLimit]
          /\ OutputIfVerbose(<<"Resolver is ", "resolver">>)
          /\ Continue("resolve")
       \/ /\ trace' = Append(trace, Call("ens.NewResolver", FALSE))
          /\ Die("No resolver for that name")
          /\ UNCHANGED <<unsigned, stdout>>
    /\ UNCHANGED <<cmd, flags, tx, pending, minGasPrice, gasPrice, nonce,
                   fromAddress, signedTx, walletVars>>

\* ensaddressset.go:64-65; resolver.SetAddress signs the transaction with the
\* options' signer and broadcasts it
EnsSetAddress ==
    /\ cmd = "ens" /\ pc = "ens_setaddress"
    /\ \/ /\ trace' = trace \o <<Call("SignTxWithPassphrase", TRUE), Call("SendTransaction", TRUE)>>
          /\ \E n \in 0..MaxNonce :
               signedTx' = Some([from |-> unsigned.from, nonce |-> n, to |-> unsigned.to,
                                 value |-> 0, gas |-> unsigned.gasLimit, gasPrice |-> 1,
                                 data |-> unsigned.data])
          /\ Continue("submitted")
       \/ /\ trace' = trace \o <<Call("SignTxWithPassphrase", TRUE), Call("SendTransaction", FALSE)>>
          /\ Die("Failed to send transaction")
          /\ UNCHANGED signedTx
       \/ /\ trace' = Append(trace, Call("SignTxWithPassphrase", FALSE))
          /\ Die("Failed to send transaction")
          /\ UNCHANGED signedTx
    /\ UNCHANGED <<cmd, flags, stdout, tx, pending, minGasPrice, gasPrice, nonce,
                   fromAddress, unsigned, walletVars>>

----------------------------------------------------------------------------
(* cli/wallet.go: listing the wallets of every backend *)

\* wallet.go:109-129
obtainGethWallets(chainID, env) ==
    [wallets |-> KeystoreWallets(GethKeydir(chainID), env.geth), err |-> ""]

\* wallet.go:160-185
obtainParityWallets(chainID, env) ==
    IF ~env.home THEN [wallets |-> << >>, err |-> "Failed to find home directory"]
    ELSE IF ParityKeydir(chainID, env.goos) = << >>
    THEN [wallets |-> << >>, err |-> "Unsupported operating system"]
    ELSE [wallets |-> KeystoreWallets(ParityKeydir(chainID, env.goos), env.parity), err |-> ""]

\* What the hardware hub holds: whether usbwallet.NewLedgerHub fails, the
\* devices plugged in, and the devices whose Open succeeds.
HubEnvs == [hubErr : BOOLEAN, devices : 0..MaxHubWallets, openOK : SUBSET (1..MaxHubWallets)]

NoHub == [found |-> FALSE, devices |-> 0, openCalls |-> << >>, opened |-> {},
          closed |-> {}, derived |-> << >>, managerClosed |-> FALSE]

\* wallet.go:200-202, accounts.LegacyLedgerBaseDerivationPath with path[3] = i
DerivationPath(i) == <<"44'", "60'", "0'", i>>

LedgerAddress(w, i) == "ledger" \o ToString(w) \o "/" \o ToString(i)

\* The loop started at index 1 (for i := 1; i <= usbWallets; i++)
DerivedPathsFromOne(usbWallets) == [i \in 1..usbWallets |-> DerivationPath(i)]

\* wallet.go:198-205, the Derive calls made of one wallet
DerivedPaths(usbWallets) == [i \in 1..usbWallets |-> DerivationPath(i - 1)]

\* The accounts a hub wallet lists afterwards: Derive pins an account only on
\* an open wallet.
LedgerWallet(w, usbWallets, isOpen) ==
    [kind |-> "ledger", url |-> <<"ledger", ToString(w)>>,
     accounts |-> IF isOpen THEN [i \in 1..usbWallets |-> LedgerAddress(w, i - 1)] ELSE << >>]

\* wallet.go:187-208
obtainLedgerWallets(chainID, usbWallets, henv) ==
    IF henv.hubErr
    THEN [wallets |-> << >>, err |-> "failed to open hub", hub |-> NoHub]
    ELSE [wallets |-> [w \in 1..henv.devices |->
                          LedgerWallet(w, usbWallets, w \in henv.openOK)],
          err |-> "",
          hub |-> [found |-> TRUE, devices |-> henv.devices,
                   openCalls |-> [w \in 1..henv.devices |-> w],
                   opened |-> henv.openOK \cap (1..henv.devices),
                   closed |-> {},
                   derived |-> [w \in 1..henv.devices |-> DerivedPaths(usbWallets)],
                   managerClosed |-> TRUE]]

\* wallet.go:35-58; local is the slice built up to the return
ObtainWallets(chainID, usbWallets, env, henv) ==
    LET g == obtainGethWallets(chainID, env)
        p == obtainParityWallets(chainID, env)
        l == obtainLedgerWallets(chainID, usbWallets, henv)
    IN  IF g.err /= ""
        THEN [wallets |-> << >>, err |-> g.err, local |-> << >>, hub |-> NoHub,
              calls |-> <<Call("geth keystore", FALSE)>>]
        ELSE IF p.err /= ""
        THEN [wallets |-> << >>, err |-> p.err, local |-> g.wallets, hub |-> NoHub,
              calls |-> <<Call("geth keystore", TRUE), Call("parity keystore", FALSE)>>]
        ELSE IF l.err /= ""
        THEN [wallets |-> << >>, err |-> l.err, local |-> g.wallets \o p.wallets, hub |-> l.hub,
              calls |-> <<Call("geth keystore", TRUE), Call("parity keystore", TRUE),
                          Call("ledger hub", FALSE)>>]
        ELSE [wallets |-> (g.wallets \o p.wallets) \o l.wallets, err |-> "",
              local |-> (g.wallets \o p.wallets) \o l.wallets, hub |-> l.hub,
              calls |-> <<Call("geth keystore", TRUE), Call("parity keystore", TRUE),
                          Call("ledger hub", TRUE)>>]

ObtainWalletsStep ==
    /\ cmd = "ObtainWallets" /\ pc = "wallets"
    /\ \E env \in WalletEnvs, henv \in HubEnvs :
         LET r == ObtainWallets(flags.chainID, flags.usbwallets, env, henv)
         IN  /\ wallets' = r.wallets
             /\ enumerated' = r.local
             /\ err' = r.err
             /\ hub' = r.hub
             /\ trace' = trace \o r.calls
    /\ Return
    /\ UNCHANGED <<cmd, flags, stdout, txVars, wallet, account, signRequests>>

----------------------------------------------------------------------------
(* One invocation *)

DefaultFlags ==
    [transactionStr |-> "", gasprice |-> None, offline |-> FALSE, quiet |-> FALSE,
     verbose |-> FALSE, wait |-> FALSE, passphrase |-> "", from |-> "", call |-> "", contract |-> "",
     amount |-> "", domain |-> "", chainID |-> MainnetChainID, usbwallets |-> 1,
     gasLimit |-> 21000]

NoUnsigned == [from |-> NoAddress, to |-> NoAddress, value |-> 0, gasLimit |-> 0, data |-> << >>]

Passphrases == {"", "secret"}

\* The wallets ObtainAccount is given when it is called on its own.
GivenWallets ==
    {KeystoreWallet(GethKeydir(MainnetChainID), a) : a \in Addresses}
      \cup {[kind |-> "ledger", url |-> <<"ledger", "1">>, accounts |-> as] :
              as \in {<< >>, <<"a1", "a2">>, <<"a2", "a1">>}}

InitCommon ==
    /\ exitStatus = {}
    /\ failure = ""
    /\ trace = << >>
    /\ stdout = << >>
    /\ tx = None
    /\ pending = None
    /\ minGasPrice = None
    /\ nonce = None
    /\ unsigned = NoUnsigned
    /\ signedTx = None
    /\ account = NoAccount
    /\ wallets = << >>
    /\ enumerated = << >>
    /\ err = ""
    /\ signRequests = << >>
    /\ hub = NoHub

InitUp ==
    /\ cmd = "up" /\ pc = "up_validate"
    /\ \E t \in {"", "0x454d"}, g \in {None} \cup {Some(p) : p \in SuppliedGasPrices},
          o \in BOOLEAN, q \in BOOLEAN, w \in BOOLEAN, pp \in Passphrases :
         /\ flags = [DefaultFlags EXCEPT !.transactionStr = t, !.gasprice = g, !.offline = o,
                                         !.quiet = q, !.wait = w, !.passphrase = pp]
         /\ gasPrice = g
    /\ fromAddress = NoAddress
    /\ wallet = NoWallet

InitSend ==
    /\ cmd = "send" /\ pc = "send_from"
    /\ \E f \in {"", "a1"}, c \in {"", "transfer()"}, k \in {"", "a2"}, a \in {"", "1"},
          g \in {None, Some(3)}, v \in BOOLEAN,
          o \in BOOLEAN, q \in BOOLEAN, w \in BOOLEAN, pp \in Passphrases :
         /\ flags = [DefaultFlags EXCEPT !.from = f, !.call = c, !.contract = k, !.amount = a,
                                         !.gasprice = g, !.verbose = v, !.offline = o,
                                         !.quiet = q, !.wait = w, !.passphrase = pp]
         /\ gasPrice = g
    /\ fromAddress = NoAddress
    /\ wallet = NoWallet

InitEns ==
    /\ cmd = "ens" /\ pc = "ens_validate"
    /\ \E d \in {"", "enstest.eth"}, v \in BOOLEAN,
          o \in BOOLEAN, q \in BOOLEAN, w \in BOOLEAN, pp \in Passphrases :
         flags = [DefaultFlags EXCEPT !.domain = d, !.verbose = v, !.offline = o,
                                      !.quiet = q, !.wait = w, !.passphrase = pp]
    /\ gasPrice = None
    /\ fromAddress = NoAddress
    /\ wallet = NoWallet

InitObtainWallets ==
    /\ cmd = "ObtainWallets" /\ pc = "wallets"
    /\ \E c \in ChainIDs, n \in 0..MaxUsbWallets :
         flags = [DefaultFlags EXCEPT !.chainID = c, !.usbwallets = n]
    /\ gasPrice = None
    /\ fromAddress = NoAddress
    /\ wallet = NoWallet

InitObtainWalletAndAccount ==
    /\ cmd = "ObtainWalletAndAccount" /\ pc = "resolve"
    /\ \E c \in ChainIDs, pp \in Passphrases :
         flags = [DefaultFlags EXCEPT !.chainID = c, !.passphrase = pp]
    /\ gasPrice = None
    /\ fromAddress \in Addresses
    /\ wallet = NoWallet

InitObtainAccount ==
    /\ cmd = "ObtainAccount" /\ pc = "account"
    /\ \E pp \in Passphrases : flags = [DefaultFlags EXCEPT !.passphrase = pp]
    /\ gasPrice = None
    /\ fromAddress \in Addresses
    /\ wallet \in GivenWallets

Init ==
    /\ InitCommon
    /\ \/ InitUp
       \/ InitSend
       \/ InitEns
       \/ InitObtainWallets
       \/ InitObtainWalletAndAccount
       \/ InitObtainAccount

Next ==
    \/ UpValidate
    \/ UpFetchFailed
    \/ UpFetch
    \/ UpGasPrice
    \/ UpFrom
    \/ UpCreate
    \/ UpEmit
    \/ UpSend
    \/ SendFrom
    \/ SendCall
    \/ SendContract
    \/ SendAmount
    \/ SendEmit
    \/ SendSend
    \/ EnsValidate
    \/ EnsRegistry
    \/ EnsOwner
    \/ EnsAddress
    \/ EnsResolver
    \/ EnsSetAddress
    \/ ObtainWalletStep
    \/ ObtainAccountStep
    \/ BuildNonce
    \/ BuildGasPrice
    \/ SignStep
    \/ HandleSubmittedTransaction
    \/ ObtainWalletsStep

Spec == Init /\ [][Next]_vars

----------------------------------------------------------------------------
(* Properties *)

Replacing == cmd = "up" /\ IsSome(tx) /\ IsSome(minGasPrice)

\* C1: in 'transaction up' the replacement minimum m computed from the gas
\* price g of the pending transaction is g + (g div 10) + 1 with truncating
\* division, that is m - 1 - g is the largest k with 10 * k <= g, and m > g;
\* g = 1,000,000,000 gives 1,100,000,001 and g = 5 gives 6.
C1_MinGasPrice ==
    Replacing =>
        LET g == Val(tx).gasPrice
            m == Val(minGasPrice)
        IN  /\ m > g
            /\ m = g + (g \div 10) + 1
            /\ 10 * (m - 1 - g) <= g /\ g < 10 * (m - g)
            /\ (g = 1000000000 => m = 1100000001)
            /\ (g = 5 => m = 6)

C1_Witness ==
    /\ Replacing
    /\ Val(tx).gasPrice = 1000000000
    /\ Val(minGasPrice) = 1100000001

Signed(c) == cmd = c /\ IsSome(signedTx)

C3_AlreadyMined ==
    (cmd = "up" /\ pending = Some(FALSE)) =>
        /\ pc = "exited" /\ exitStatus = {1}
        /\ failure = "Transaction has already been mined"
        /\ unsigned = NoUnsigned /\ signedTx = None /\ minGasPrice = None
        /\ stdout = << >>
        /\ Ops(trace) = {"check --transaction", "TransactionByHash", "check pending"}

C3_Witness ==
    /\ cmd = "up" /\ pending = Some(FALSE) /\ IsSome(tx)
    /\ exitStatus = {1}

\* C4: the replacement 'transaction up' signs has the nonce, to (none for a
\* contract creation), value, gas limit and data of the pending transaction;
\* only its gas price differs.
C4_ReplacementFrame ==
    Signed("up") =>
        LET s == Val(signedTx)
            t == Val(tx)
        IN  /\ s.nonce = t.nonce
            /\ s.to = t.to
            /\ s.value = t.value
            /\ s.gas = t.gas
            /\ s.data = t.data
            /\ s.gasPrice /= t.gasPrice

C4_Witness ==
    /\ Signed("up")
    /\ Val(tx).to = NoAddress /\ Val(signedTx).to = NoAddress
    /\ Val(tx).data /= << >>
    /\ Val(tx).nonce > 0


\* ObtainWallet has returned.
WalletObtained ==
    /\ cmd \in Pipeline \cup {"ObtainWalletAndAccount"}
    /\ "geth keystore" \in Ops(trace)

\* C5: ObtainWallet returns the first backend, in the order Geth keystore,
\* Parity keystore, hardware hub, that holds the address, and reports that no
\* wallet was found only after it has consulted every backend, the hardware
\* hub included.
C5_FindWallet ==
    WalletObtained =>
        /\ wallet /= NoWallet => Contains(wallet, fromAddress)
        /\ "parity keystore" \in Ops(trace) => "geth keystore" \in Failed(trace)
        /\ "ledger hub" \in Ops(trace) => "parity keystore" \in Failed(trace)
        /\ wallet = NoWallet =>
              {"geth keystore", "parity keystore", "ledger hub"} \subseteq Ops(trace)

\* ObtainAccount has returned.
AccountObtained ==
    \/ cmd = "ObtainAccount" /\ pc = "returned"
    \/ cmd \in Pipeline \cup {"ObtainWalletAndAccount"} /\ wallet /= NoWallet /\ pc /= "account"

TestSignatureSucceeded == \E i \in 1..Len(trace) : trace[i] = Call("SignDataWithPassphrase", TRUE)
TestSignatureFailed == \E i \in 1..Len(trace) : trace[i] = Call("SignDataWithPassphrase", FALSE)

\* C6: when the discovery of the hardware hub fails, ObtainWallets still
\* returns the Geth and Parity keystore wallets it has enumerated.
C6_HubFailureKeepsLocalWallets ==
    (cmd = "ObtainWallets" /\ pc = "returned" /\ "ledger hub" \in Failed(trace)) =>
        wallets = enumerated

\* C7: with a non-empty passphrase ObtainAccount returns the account exactly
\* when the address is among the wallet's accounts and the test signature
\* over the constant payload of 32 zero bytes succeeds; a failed signature
\* gives "invalid passphrase" and no account, an address that is not among
\* the accounts gives "account not found" and no account.
C7_VerifiedAccount ==
    (AccountObtained /\ flags.passphrase /= "") =>
        /\ account /= NoAccount <=> (Contains(wallet, fromAddress) /\ TestSignatureSucceeded)
        /\ account /= NoAccount => (account = fromAddress /\ err = "")
        /\ (Contains(wallet, fromAddress) /\ TestSignatureFailed) =>
              (err = "invalid passphrase" /\ account = NoAccount)
        /\ ~Contains(wallet, fromAddress) =>
              (err = "account not found" /\ account = NoAccount /\ signRequests = << >>)
        /\ Contains(wallet, fromAddress) => Len(signRequests) = 1
        /\ \A i \in 1..Len(signRequests) :
              /\ signRequests[i].account = fromAddress
              /\ signRequests[i].passphrase = flags.passphrase
              /\ Len(signRequests[i].data) = 32
              /\ \A k \in 1..32 : signRequests[i].data[k] = 0

C7_Witness ==
    /\ cmd = "ObtainAccount" /\ pc = "returned"
    /\ flags.passphrase /= ""
    /\ Len(wallet.accounts) = 2 /\ wallet.accounts[2] = fromAddress
    /\ err = "invalid passphrase" /\ account = NoAccount

\* C8: with the empty passphrase ObtainAccount verifies nothing: it makes no
\* signing request, and it returns the account whenever the address is among
\* the wallet's accounts.
C8_NoVerificationWithoutPassphrase ==
    (AccountObtained /\ flags.passphrase = "") =>
        /\ signRequests = << >>
        /\ "SignDataWithPassphrase" \notin Ops(trace)
        /\ account /= NoAccount <=> Contains(wallet, fromAddress)
        /\ account /= NoAccount => (account = fromAddress /\ err = "")
        /\ ~Contains(wallet, fromAddress) => err = "account not found"

C8_Witness ==
    /\ cmd = "ObtainAccount" /\ pc = "returned"
    /\ flags.passphrase = ""
    /\ Len(wallet.accounts) = 2 /\ wallet.accounts[2] = fromAddress
    /\ account = fromAddress /\ signRequests = << >>

\* The value of a hexadecimal digit, and the bytes a line of digits stands for.
HexValue(d) == (CHOOSE i \in 1..16 : HexDigits[i] = d) - 1

RECURSIVE HexDecode(_)
HexDecode(digits) ==
    IF Len(digits) < 2 THEN << >>
    ELSE <<16 * HexValue(digits[1]) + HexValue(digits[2])>> \o HexDecode(Tail(Tail(digits)))

IsOfflineLine(line, stx) ==
    /\ Len(line) = 1 + 2 * Len(EncodeRLP(stx))
    /\ Head(line) = "0x"
    /\ HexDecode(Tail(line)) = EncodeRLP(stx)

OfflineSigned == cmd \in {"up", "send"} /\ flags.offline /\ IsSome(signedTx)

\* C9 as claimed: offline, 'transaction up' and 'contract send' never call
\* SendTransaction; the signed transaction is printed as "0x" and the hex of
\* its encoding, and the run ends with status 0.
C9_OfflineAlwaysPrints ==
    /\ (cmd \in {"up", "send"} /\ flags.offline) => "SendTransaction" \notin Ops(trace)
    /\ OfflineSigned => pc \in {IF cmd = "up" THEN "up_emit" ELSE "send_emit", "exited"}
    /\ (OfflineSigned /\ pc = "exited") =>
          /\ exitStatus = {0}
          /\ stdout /= << >> /\ IsOfflineLine(stdout[Len(stdout)], Val(signedTx))

\* C9 as amended: offline, 'transaction up' and 'contract send' never call
\* SendTransaction and the run ends with status 0 once the transaction is
\* signed; the signed transaction is printed, as "0x" and the hex of its
\* encoding, unless --quiet is set, and with --quiet it is not printed.
C9_OfflineNeverBroadcasts ==
    /\ (cmd \in {"up", "send"} /\ flags.offline) => "SendTransaction" \notin Ops(trace)
    /\ OfflineSigned => pc \in {IF cmd = "up" THEN "up_emit" ELSE "send_emit", "exited"}
    /\ (OfflineSigned /\ pc = "exited") =>
          /\ exitStatus = {0}
          /\ ~flags.quiet =>
                /\ stdout /= << >> /\ IsOfflineLine(stdout[Len(stdout)], Val(signedTx))
                /\ \A i \in 1..(Len(stdout) - 1) : Head(stdout[i]) /= "0x"
          /\ flags.quiet => \A i \in 1..Len(stdout) : Head(stdout[i]) /= "0x"

C9_Witness ==
    /\ OfflineSigned /\ pc = "exited" /\ cmd = "up"
    /\ ~flags.quiet
    /\ Val(signedTx).data = <<1, 171>>
    /\ stdout = <<<<"0x", "0", "1", "0", "6", "0", "8", "8", "0", "0", "1", "0", "1", "a", "b">>>>

\* A step of the run failed: a cli check did not hold or a call returned an
\* error (a miss in the Geth keystore is followed by the Parity keystore).
StepFailed == Failed(trace) \ {"geth keystore"} /= {}

Broadcast == \E i \in 1..Len(trace) : trace[i] = Call("SendTransaction", TRUE)

\* C10: a run of a submitting command ends with exactly one status: 0 when
\* the transaction was broadcast (and mined, with --wait) or was serialised
\* offline, 1 when a validation, resolution, signing or network step failed,
\* 2 when it was broadcast and not mined before the deadline; neither 0 nor 2
\* follows a failed step, and 2 never comes without a broadcast.
C10_ExitStatus ==
    cmd \in Pipeline =>
        /\ Cardinality(exitStatus) <= 1
        /\ exitStatus \subseteq {0, 1, 2}
        /\ pc = "exited" <=> exitStatus /= {}
        /\ pc /= "exited" => ENABLED Next
        /\ StepFailed <=> exitStatus = {1}
        /\ exitStatus = {0} =>
              \/ Broadcast /\ ~flags.offline /\ (flags.wait => "mined" \in Ops(trace))
              \/ flags.offline /\ IsSome(signedTx) /\ ~Broadcast
        /\ exitStatus = {2} =>
              Broadcast /\ flags.wait /\ "not mined in time" \in Ops(trace)

C10_Witness ==
    /\ cmd \in Pipeline
    /\ exitStatus = {2}
    /\ Broadcast

----------------------------------------------------------------------------
(* Validation of required inputs *)

\* The cli checks of the inputs a command cannot run without
\* (contractsend.go:49,54,64, transactionup.go:43, ensaddressset.go:41)
RequiredInputChecks ==
    {"check --from", "check --call", "check --contract", "check --transaction",
     "check --domain"}

\* The calls that go through the node connection (client)
NetworkCalls ==
    {"TransactionByHash", "ens.Resolve", "ParseCall", "PendingNonceAt", "SuggestGasPrice",
     "SendTransaction", "ens.NewRegistry", "registry.Owner", "ens.NewResolver",
     "mined", "not mined in time"}

\* The calls that go to a wallet backend (keystore or hardware hub)
BackendCalls ==
    {"geth keystore", "parity keystore", "ledger hub", "SignDataWithPassphrase",
     "SignTxWithPassphrase"}

\* The i-th entry of the trace is the report of a missing required input.
MissingInput(i) == trace[i].op \in RequiredInputChecks /\ ~trace[i].ok

\* C11: when a required input (--from, --call, --contract, --transaction,
\* --domain) is missing, the failure is reported before any network or
\* backend call of the run: nothing before the failed check in the trace is
\* a call through the node connection or to a wallet backend.
C11_ValidationBeforeCalls ==
    \A i \in 1..Len(trace) :
        MissingInput(i) =>
            \A j \in 1..(i - 1) : trace[j].op \notin NetworkCalls \cup BackendCalls

----------------------------------------------------------------------------
(* Hardware wallets *)

\* The hardware wallets Open succeeded on and Close was never called on
\* (wallet.go:198-199; the function holds no wallet.Close())
HandlesLeftOpen == hub.opened \ hub.closed

\* C12: every hardware wallet handle opened during the enumeration is
\* released by the time obtainLedgerWallets has returned, on every path: no
\* opened handle is left open.
C12_HardwareHandlesReleased ==
    (cmd = "ObtainWallets" /\ pc = "returned") => HandlesLeftOpen = {}

----------------------------------------------------------------------------
(* Geth key directory *)

\* The key directories the claim allows: the data root, at most one of the
\* three network names, then "keystore".
AllowedGethKeydirs ==
    {(DefaultDataDir \o sub) \o <<"keystore">> :
        sub \in {<< >>, <<"testnet">>, <<"rinkeby">>, <<"goerli">>}}

\* The directory of a key file
Dir(url) == SubSeq(url, 1, Len(url) - 1)

\* A wallet of the Geth keystore (the Parity key directories are under home)
FromGethKeystore(w) == w.kind = "keystore" /\ w.url[1] = DefaultDataDir[1]

\* C14: for every chain identifier the Geth key directory is the data root,
\* then at most one of "testnet", "rinkeby", "goerli", then "keystore"; no
\* chain identifier selects "volta" or "energyweb" (the Volta and Energy Web
\* chains get the root's keystore), and every wallet obtainGethWallet or
\* obtainGethWallets hands back lies in that directory.
C14_GethKeydir ==
    LET keydir == GethKeydir(flags.chainID)
    IN  /\ keydir \in AllowedGethKeydirs
        /\ \A k \in 1..Len(keydir) : keydir[k] \notin {"volta", "energyweb"}
        /\ flags.chainID \notin {TestnetChainID, RinkebyChainID, GoerliChainID} =>
              keydir = DefaultDataDir \o <<"keystore">>
        /\ FromGethKeystore(wallet) => Dir(wallet.url) = keydir
        /\ \A i \in 1..Len(enumerated) :
              FromGethKeystore(enumerated[i]) => Dir(enumerated[i].url) = keydir

C14_Witness ==
    /\ cmd = "ObtainWallets" /\ pc = "returned"
    /\ flags.chainID = 73799
    /\ Len(wallets) > 0
    /\ wallets[1].url = <<"DefaultDataDir", "keystore", "a1">>

----------------------------------------------------------------------------
(* Order of the stages of a submitting run *)

\* The checks and calls of 'transaction up' in the order of the code
\* (transactionup.go:43-85, createSignedTransaction in between)
UpStages ==
    <<"check --transaction", "TransactionByHash", "check pending", "check gas price",
      "txFrom", "geth keystore", "parity keystore", "SignDataWithPassphrase",
      "PendingNonceAt", "SuggestGasPrice", "SignTxWithPassphrase", "SendTransaction",
      "mined", "not mined in time">>

\* The checks and calls of 'contract send' in the order of the code
\* (contractsend.go:49-95)
SendStages ==
    <<"check --from", "ens.Resolve", "check --call", "ParseCall", "Abi.Pack",
      "check --contract", "ens.Resolve", "StringToWei", "geth keystore",
      "parity keystore", "SignDataWithPassphrase", "PendingNonceAt", "SuggestGasPrice",
      "SignTxWithPassphrase", "SendTransaction", "mined", "not mined in time">>

\* The stages no run reaches the broadcast without
UpRequired == {"check --transaction", "TransactionByHash", "txFrom", "SignTxWithPassphrase"}
SendRequired ==
    {"check --from", "ens.Resolve", "check --call", "ParseCall", "Abi.Pack",
     "check --contract", "SignTxWithPassphrase"}

OpSeq(t) == [i \in 1..Len(t) |-> t[i].op]

\* s is stages with some of its entries left out.
RECURSIVE Embeds(_, _)
Embeds(s, stages) ==
    IF s = << >> THEN TRUE
    ELSE IF stages = << >> THEN FALSE
    ELSE IF Head(s) = Head(stages) THEN Embeds(Tail(s), Tail(stages))
    ELSE Embeds(s, Tail(stages))

Broadcasts == {i \in 1..Len(trace) : trace[i].op = "SendTransaction"}

\* The steps that succeeded before the i-th entry of the trace
SucceededBefore(i) == {trace[j].op : j \in {k \in 1..(i - 1) : trace[k].ok}}

\* C15: in 'transaction up' and 'contract send' SendTransaction is called at
\* most once in a run; when it is called, every step before it has succeeded
\* (a miss in the Geth keystore being followed by a hit in the Parity one),
\* the steps came in the order of the code -- validation, fetch or
\* resolution, for a replacement the pending check and the gas price check,
\* then signing -- and a signed transaction exists; a step that fails is the
\* last step of the run, which ends there with status 1.
C15_BroadcastAfterEveryStage ==
    cmd \in {"up", "send"} =>
        /\ Cardinality(Broadcasts) <= 1
        /\ Embeds(OpSeq(trace), IF cmd = "up" THEN UpStages ELSE SendStages)
        /\ \A i \in Broadcasts :
              /\ \A j \in 1..(i - 1) : trace[j].ok \/ trace[j].op = "geth keystore"
              /\ (IF cmd = "up" THEN UpRequired ELSE SendRequired) \subseteq SucceededBefore(i)
              /\ {"geth keystore", "parity keystore"} \cap SucceededBefore(i) /= {}
              /\ IsSome(signedTx)
              /\ cmd = "up" =>
                    /\ pending = Some(TRUE)
                    /\ IsSome(flags.gasprice) => "check gas price" \in SucceededBefore(i)
                    /\ Val(gasPrice) >= Val(minGasPrice)
              /\ cmd = "send" =>
                    Len(SelectSeq(SubSeq(trace, 1, i - 1),
                                  LAMBDA c : c = Call("ens.Resolve", TRUE))) = 2
        /\ \A i \in 1..Len(trace) :
              (~trace[i].ok /\ trace[i].op /= "geth keystore") =>
                  /\ i = Len(trace)
                  /\ pc = "exited"
                  /\ exitStatus = {exit_failure}

C15_Witness ==
    /\ cmd = "up"
    /\ pc = "submitted"
    /\ Broadcasts /= {}
    /\ "check gas price" \in SucceededBefore(Len(trace))
    /\ Call("geth keystore", FALSE) \in {trace[i] : i \in 1..Len(trace)}

====
